---- MODULE Spec2Model ----
(***************************************************************************)
(* OidcFilter (src/filters/oidc/oidc_filter.cc): the OpenID Connect        *)
(* Authorization-Code filter.  Process classifies a CheckRequest and       *)
(* either lets it through (OK), redirects the agent to the IdP, or         *)
(* exchanges the authorization code at the token endpoint.                 *)
(*                                                                         *)
(* Strings are sequences of atoms (short TLA+ strings).  Concatenation is  *)
(* \o, so a header value keeps the pieces it was built from and "occurs    *)
(* in cleartext" is "is a contiguous run of atoms".                        *)
(***************************************************************************)
EXTENDS Integers, Sequences, FiniteSets, TLC

\* Number of distinct values the RandomGenerator can return.
MaxRandom == 2

\* The invocations of Process that exist in a behaviour.
Calls == {1, 2}

----------------------------------------------------------------------------
(* absl::optional *)

None == [has |-> FALSE, val |-> <<>>]

Some(v) == [has |-> TRUE, val |-> v]

----------------------------------------------------------------------------
(* String helpers *)

\* absl::StrSplit(s, d): the pieces of s between occurrences of atom d.
RECURSIVE StrSplit(_, _)
StrSplit(s, d) ==
  IF \A i \in 1..Len(s) : s[i] # d
  THEN <<s>>
  ELSE LET i == CHOOSE k \in 1..Len(s) : s[k] = d /\ \A j \in 1..(k-1) : s[j] # d
       IN  <<SubSeq(s, 1, i-1)>> \o StrSplit(SubSeq(s, i+1, Len(s)), d)

\* absl::StrJoin(parts, d)
RECURSIVE StrJoin(_, _)
StrJoin(parts, d) ==
  IF Len(parts) = 0 THEN <<>>
  ELSE IF Len(parts) = 1 THEN parts[1]
  ELSE parts[1] \o <<d>> \o StrJoin(Tail(parts), d)

\* needle is a contiguous run of atoms of hay.
Occurs(needle, hay) ==
  /\ Len(needle) > 0
  /\ \E i \in 1..(Len(hay) - Len(needle) + 1) :
        SubSeq(hay, i, i + Len(needle) - 1) = needle

\* The atoms of s outside every encrypted segment; each segment leaves "{}".
RECURSIVE Cleartext(_)
Cleartext(s) ==
  IF \A i \in 1..Len(s) : s[i] # "{"
  THEN s
  ELSE LET i == CHOOSE k \in 1..Len(s) : s[k] = "{" /\ \A j \in 1..(k-1) : s[j] # "{"
           rest == SubSeq(s, i+1, Len(s))
       IN  IF \A j \in 1..Len(rest) : rest[j] # "}"
           THEN SubSeq(s, 1, i-1) \o <<"{}">>
           ELSE LET e == CHOOSE k \in 1..Len(rest) :
                            rest[k] = "}" /\ \A j \in 1..(k-1) : rest[j] # "}"
                IN  SubSeq(s, 1, i-1) \o <<"{}">>
                      \o Cleartext(SubSeq(rest, e+1, Len(rest)))

----------------------------------------------------------------------------
(* Collaborators *)

\* TokenEncryptor::Encrypt: an opaque segment only Decrypt opens.
Encrypt(plaintext) == <<"{">> \o plaintext \o <<"}">>

\* TokenEncryptor::Decrypt: none unless the value is one Encrypt produced.
Decrypt(ciphertext) ==
  IF /\ Len(ciphertext) >= 2
     /\ ciphertext[1] = "{"
     /\ ciphertext[Len(ciphertext)] = "}"
     /\ \A i \in 2..(Len(ciphertext)-1) : ciphertext[i] \notin {"{", "}"}
  THEN Some(SubSeq(ciphertext, 2, Len(ciphertext) - 1))
  ELSE None

\* StateCookieCodec::Encode
CodecEncode(state, nonce) == state \o <<";">> \o nonce

\* StateCookieCodec::Decode
CodecDecode(value) ==
  LET values == StrSplit(value, ";")
  IN  IF Len(values) # 2 THEN None ELSE Some(<<values[1], values[2]>>)

\* RandomGenerator::Generate(32).Str(): the values it can return.
Randoms == { <<"rnd", ToString(i)>> : i \in 1..MaxRandom }

\* common::http::http::ToUrl
ToUrl(endpoint) ==
  <<endpoint.scheme, "://", endpoint.hostname>>
    \o (IF endpoint.port.has THEN <<":">> \o endpoint.port.val ELSE <<>>)
    \o endpoint.path

\* common::http::http::DecodePath: split at the first "?".
DecodePath(path) ==
  IF \A i \in 1..Len(path) : path[i] # "?"
  THEN <<path, <<>>>>
  ELSE LET i == CHOOSE k \in 1..Len(path) :
                   path[k] = "?" /\ \A j \in 1..(k-1) : path[j] # "?"
       IN  <<SubSeq(path, 1, i-1), SubSeq(path, i+1, Len(path))>>

\* The atoms percent-encoding rewrites, with their encodings; every other
\* atom is made of unreserved characters.
PercentTable ==
  << <<" ", "%20">>, <<"://", "%3A%2F%2F">>, <<":", "%3A">>,
     <<"/cb", "%2Fcb">>, <<"/landing", "%2Flanding">>, <<"=", "%3D">>,
     <<"&", "%26">>, <<"?", "%3F">>, <<";", "%3B">> >>

\* common::http::http::UrlSafeEncode
UrlSafeEncode(s) ==
  [i \in 1..Len(s) |->
     IF \E k \in 1..Len(PercentTable) : PercentTable[k][1] = s[i]
     THEN PercentTable[CHOOSE k \in 1..Len(PercentTable) :
                         PercentTable[k][1] = s[i]][2]
     ELSE s[i]]

\* common::http::http::UrlSafeDecode
UrlSafeDecode(s) ==
  [i \in 1..Len(s) |->
     IF \E k \in 1..Len(PercentTable) : PercentTable[k][2] = s[i]
     THEN PercentTable[CHOOSE k \in 1..Len(PercentTable) :
                         PercentTable[k][2] = s[i]][1]
     ELSE s[i]]

\* common::http::http::EncodeQueryData / EncodeFormData: percent-encoded
\* key=value joined by &, in the order of the multimap (sorted by key).
RECURSIVE EncodeQueryData(_)
EncodeQueryData(params) ==
  IF Len(params) = 0 THEN <<>>
  ELSE UrlSafeEncode(params[1][1]) \o <<"=">> \o UrlSafeEncode(params[1][2])
         \o (IF Len(params) > 1 THEN <<"&">> \o EncodeQueryData(Tail(params))
             ELSE <<>>)

\* common::http::http::DecodeQueryData: none unless every &-piece is key=value;
\* the result keeps the decoded pieces as <<key, value>> pairs.
DecodeQueryData(query) ==
  LET parts == StrSplit(query, "&")
      pair(i) == StrSplit(parts[i], "=")
  IN  IF \E i \in 1..Len(parts) : Len(pair(i)) # 2 \/ Len(pair(i)[1]) = 0
      THEN None
      ELSE Some([i \in 1..Len(parts) |->
                   <<UrlSafeDecode(pair(i)[1]), UrlSafeDecode(pair(i)[2])>>])

\* std::multimap::find: the first entry with the key, or end().
Find(pairs, key) ==
  IF \E i \in 1..Len(pairs) : pairs[i][1] = key
  THEN Some(pairs[CHOOSE i \in 1..Len(pairs) :
                    pairs[i][1] = key /\ \A j \in 1..(i-1) : pairs[j][1] # key][2])
  ELSE None

\* common::http::http::DecodeCookies: "; "-separated name=value pairs; none
\* when a piece has no "=" (so also for the empty header).
DecodeCookies(value) ==
  LET parts == StrSplit(value, "; ")
      HasEq(p) == \E i \in 1..Len(p) : p[i] = "="
      Eq(p) == CHOOSE k \in 1..Len(p) : p[k] = "=" /\ \A j \in 1..(k-1) : p[j] # "="
  IN  IF \E i \in 1..Len(parts) : ~HasEq(parts[i])
      THEN None
      ELSE Some([i \in 1..Len(parts) |->
                   <<SubSeq(parts[i], 1, Eq(parts[i]) - 1),
                     SubSeq(parts[i], Eq(parts[i]) + 1, Len(parts[i]))>>])

\* common::http::http::EncodeSetCookie: name=value, then each directive of the
\* std::set in its (sorted) order, each after "; ".
RECURSIVE EncodeDirectives(_)
EncodeDirectives(directives) ==
  IF Len(directives) = 0 THEN <<>>
  ELSE <<"; ">> \o directives[1] \o EncodeDirectives(Tail(directives))

EncodeSetCookie(name, value, directives) ==
  name \o <<"=">> \o value \o EncodeDirectives(directives)

\* common::http::http::EncodeBasicAuth: base64 is an opaque, decodable segment.
EncodeBasicAuth(user, password) ==
  <<"Basic ", "b64(">> \o user \o <<":">> \o password \o <<")">>

\* TokenResponseParser::Parse: a token only for a well-formed body whose
\* audience is client_id and whose nonce is the expected one.
Parse(client_id, nonce, body) ==
  IF body.wellformed /\ body.aud = client_id /\ body.nonce = nonce
  THEN Some([jwt |-> body.jwt, access_token |-> body.access_token,
             expiry |-> body.expiry])
  ELSE None

----------------------------------------------------------------------------
(* Configuration (authservice::config::oidc::OIDCConfig) *)

Endpoint(scheme, hostname, path) ==
  [scheme |-> scheme, hostname |-> hostname, port |-> None, path |-> path]

\* The scopes a configuration may list, in the order std::set<string_view>
\* keeps them (lexicographic).
ScopeUniverse == <<"email", "openid", "profile">>

\* int64 values are written as their decimal digits, most significant first.
Int64Max == <<9,2,2,3,3,7,2,0,3,6,8,5,4,7,7,5,8,0,7>>

ClientId == <<"client-1">>

ClientSecret == <<"secret-1">>

\* The configurations the filter is constructed with.
AllConfigs ==
  { [ authorization      |-> Endpoint("https", "idp", <<"/auth">>),
      token              |-> Endpoint("https", "idp", <<"/token">>),
      callback           |-> Endpoint("https", "app", <<"/cb">>),
      client_id          |-> ClientId,
      client_secret      |-> ClientSecret,
      scopes             |-> sc,
      id_token           |-> [header |-> "authorization", preamble |-> pre],
      has_access_token   |-> hat,
      access_token       |-> [header |-> "x-access-token", preamble |-> pre],
      landing_page       |-> <<"https", "://", "app", "/landing">>,
      cookie_name_prefix |-> pfx,
      timeout            |-> <<6, 0>> ] :
      sc  \in {<<>>, <<"email">>, <<"profile", "openid", "email">>},
      pre \in {<<>>, <<"Bearer">>},
      hat \in BOOLEAN,
      pfx \in {<<>>, <<"my">>} }

Configs ==
  { c \in AllConfigs : (c.id_token.preamble = <<>>) = (c.scopes = <<>>) }

----------------------------------------------------------------------------
(* Requests (envoy::service::auth::v2::CheckRequest) *)

\* OidcFilter::GetCookieName
GetCookieName(config, cookie) ==
  IF config.cookie_name_prefix = <<>>
  THEN <<"__Host-", "authservice-", cookie, "-cookie">>
  ELSE <<"__Host-">> \o config.cookie_name_prefix
         \o <<"-authservice-", cookie, "-cookie">>

\* OidcFilter::GetStateCookieName
GetStateCookieName(config) == GetCookieName(config, "state")

\* OidcFilter::GetIdTokenCookieName
GetIdTokenCookieName(config) == GetCookieName(config, "id-token")

\* OidcFilter::GetAccessTokenCookieName
GetAccessTokenCookieName(config) == GetCookieName(config, "access-token")

Jwt == <<"jwt-1">>

AccessTok == <<"at-1">>

AuthCode == <<"code-1">>

\* Values a user-agent may send for a session cookie: none, one the encryptor
\* rejects, one it accepts.
TokenCookieValues(plaintext) ==
  {None, Some(<<"garbage">>), Some(Encrypt(plaintext))}

\* Values a user-agent may send for the state cookie.
StateCookieValues ==
  {None, Some(<<"garbage">>), Some(Encrypt(<<"no-separator">>))}
    \cup { Some(Encrypt(CodecEncode(s, n))) : s \in Randoms, n \in Randoms }

\* The Cookie header a user-agent sends for the three cookies.
CookieHeader(config, idv, acv, stv) ==
  LET one(name, v) == IF v.has THEN <<name \o <<"=">> \o v.val>> ELSE <<>>
  IN  StrJoin(one(GetIdTokenCookieName(config), idv)
                \o one(GetAccessTokenCookieName(config), acv)
                \o one(GetStateCookieName(config), stv), "; ")

Query(s) == <<"state", "=">> \o s \o <<"&", "code", "=">> \o AuthCode

\* Request paths: off and on the callback path, with and without the
\* parameters RetrieveToken reads.
Paths ==
  {<<"/foo">>, <<"/cb">>, <<"/cb", "?", "state">>,
   <<"/cb", "?", "code", "=">> \o AuthCode,
   <<"/cb", "/x", "?">> \o Query(<<"rnd", "1">>)}
    \cup { <<"/cb", "?", "state", "=">> \o s : s \in Randoms }
    \cup { <<"/cb", "?">> \o Query(s) : s \in Randoms }
    \cup { <<"/cb", "?">> \o Query(s) \o <<"?", "x", "=", "y">> : s \in Randoms }

\* Host and path of a request: every path on the callback host, and the
\* callback path on another host.
Targets ==
  { <<"app", p>> : p \in Paths }
    \cup { <<"other", p>> :
             p \in {<<"/cb">>, <<"/cb", "?">> \o Query(<<"rnd", "1">>)} }

\* The Cookie headers a user-agent may send: none, one without name=value
\* pairs, or one with any choice of the three cookies.
CookieHeaders(config) ==
  {None, Some(<<"junk">>)}
    \cup { Some(CookieHeader(config, idv, acv, stv)) :
             idv \in TokenCookieValues(Jwt),
             acv \in TokenCookieValues(AccessTok),
             stv \in StateCookieValues }

\* The Cookie headers sent along with the id_token header.
CookieHeadersWithIdTokenHeader(config) ==
  {None}
    \cup { Some(CookieHeader(config, Some(Encrypt(Jwt)), Some(Encrypt(AccessTok)),
                             stv)) : stv \in StateCookieValues }

\* Headers of a request: a map from lower-case names to values.
HeaderMaps(config) ==
  LET base(ck) == IF ck.has THEN ("cookie" :> ck.val)
                  ELSE [x \in {} |-> <<>>]
  IN  { base(ck) : ck \in CookieHeaders(config) }
        \cup { (config.id_token.header :> <<"Bearer", " ", "upstream">>) @@ base(ck) :
                 ck \in CookieHeadersWithIdTokenHeader(config) }

\* The requests Process is called with.
Requests(config) ==
  { [has_http |-> FALSE, scheme |-> "", host |-> "", path |-> <<>>,
     headers |-> [x \in {} |-> <<>>]] }
    \cup { [has_http |-> TRUE, scheme |-> "https", host |-> t[1], path |-> t[2],
            headers |-> hd] :
             t \in Targets, hd \in HeaderMaps(config) }

----------------------------------------------------------------------------
(* Responses (envoy::service::auth::v2::CheckResponse) *)

\* A response with neither side of the http_response oneof set.
EmptyResponse == [kind |-> "none", status |-> 0, headers |-> <<>>]

\* Mutant: the denied side is selected without clearing the OK side.
MutableDeniedKeepsOk(response) == [response EXCEPT !.kind = "denied"]

\* CheckResponse::mutable_denied_response: selecting a side of the oneof
\* clears the other side.
MutableDenied(response) ==
  IF response.kind = "denied" THEN response
  ELSE [kind |-> "denied", status |-> 0, headers |-> <<>>]

\* CheckResponse::mutable_ok_response
MutableOk(response) ==
  IF response.kind = "ok" THEN response
  ELSE [kind |-> "ok", status |-> 0, headers |-> <<>>]

\* OidcFilter::SetHeader
SetHeader(headers, name, value) ==
  Append(headers, [key |-> name, value |-> value])

\* standard_headers, in the order the std::map<const char *, ...> iterates
\* (by pointer value, so either order).
StandardHeaders(order) ==
  IF order
  THEN << <<"cache-control", <<"no-cache">>>>, <<"pragma", <<"no-cache">>>> >>
  ELSE << <<"pragma", <<"no-cache">>>>, <<"cache-control", <<"no-cache">>>> >>

\* Mutant: only the first standard header is added.
SetStandardResponseHeadersFirst(order, response) ==
  [MutableDenied(response) EXCEPT
     !.headers = SetHeader(@, StandardHeaders(order)[1][1],
                           StandardHeaders(order)[1][2])]

\* OidcFilter::SetStandardResponseHeaders
SetStandardResponseHeaders(order, response) ==
  LET to_add == StandardHeaders(order)
      first  == [MutableDenied(response) EXCEPT
                   !.headers = SetHeader(@, to_add[1][1], to_add[1][2])]
  IN  [MutableDenied(first) EXCEPT
         !.headers = SetHeader(@, to_add[2][1], to_add[2][2])]

\* envoy::type::StatusCode::Found
Found == 302

\* Mutant: the Location header is set without the 302 status.
SetRedirectHeadersNoStatus(redirect_url, response) ==
  [MutableDenied(response) EXCEPT
     !.headers = SetHeader(@, "location", redirect_url)]

\* OidcFilter::SetRedirectHeaders
SetRedirectHeaders(redirect_url, response) ==
  LET withStatus == [MutableDenied(response) EXCEPT !.status = Found]
  IN  [MutableDenied(withStatus) EXCEPT
         !.headers = SetHeader(@, "location", redirect_url)]

\* std::to_string(int64_t)
ToStringInt64(n) == [i \in 1..Len(n) |-> ToString(n[i])]

\* OidcFilter::EncodeCookieTimeoutDirective
EncodeCookieTimeoutDirective(timeout) ==
  <<"Max-Age", "=">> \o ToStringInt64(timeout)

\* Mutant: the Secure directive is left out of the set.
CookieDirectivesNoSecure(timeout_directive) ==
  << <<"HttpOnly">>, timeout_directive, <<"Path=/">>, <<"SameSite=Lax">> >>

\* token_set_cookie_header_directives: the std::set<string_view>, in its order.
CookieDirectives(timeout_directive) ==
  << <<"HttpOnly">>, timeout_directive, <<"Path=/">>, <<"SameSite=Lax">>,
     <<"Secure">> >>

\* OidcFilter::SetStateCookie
SetStateCookie(config, headers, value, timeout) ==
  LET timeout_directive == EncodeCookieTimeoutDirective(timeout)
      state_cookie_header ==
        EncodeSetCookie(GetStateCookieName(config), value,
                        CookieDirectives(timeout_directive))
  IN  SetHeader(headers, "set-cookie", state_cookie_header)

\* OidcFilter::EncodeHeaderValue
\* Mutant: the preamble and a space are put before the value even when the
\* preamble is empty.
EncodeHeaderValueAlways(preamble, value) == preamble \o <<" ">> \o value

EncodeHeaderValue(preamble, value) ==
  IF preamble # <<>> THEN preamble \o <<" ">> \o value ELSE value

\* OidcFilter::CookieFromHeaders
CookieFromHeaders(headers, cookie) ==
  IF "cookie" \notin DOMAIN headers THEN None
  ELSE LET cookies == DecodeCookies(headers["cookie"])
       IN  IF ~cookies.has THEN None ELSE Find(cookies.val, cookie)

\* A spdlog record.
Log(level, text) == [level |-> level, text |-> text]

----------------------------------------------------------------------------
(* Process, step by step.  Each step operator returns what the step leaves: *)
(* the response, the records it logged, the ciphertexts it handed to       *)
(* Decrypt, and where control goes.                                        *)

\* Mutant: the id_token header test is dropped.
HasIdTokenHeaderNever(config, request) == FALSE

\* Process, the id_token header test:
\*   headers.contains(idp_config_.id_token().header())
HasIdTokenHeader(config, request) ==
  config.id_token.header \in DOMAIN request.headers

\* Mutant: the id-token cookie alone is accepted.
ForwardsAccessTokenNever(config) == FALSE

\* Process, `if (idp_config_.has_access_token())` in the session-cookie block.
ForwardsAccessToken(config) == config.has_access_token

\* Process, the session-cookie block: OK only with a decryptable id-token
\* cookie and, when access_token is configured, a decryptable access-token
\* cookie as well.
SessionCookies(config, request, response) ==
  LET headers == request.headers
      id_token_cookie == CookieFromHeaders(headers, GetIdTokenCookieName(config))
      id_token == Decrypt(id_token_cookie.val)
      with_id ==
        [MutableOk(response) EXCEPT
           !.headers = SetHeader(@, config.id_token.header,
                          EncodeHeaderValue(config.id_token.preamble, id_token.val))]
      access_token_cookie ==
        CookieFromHeaders(headers, GetAccessTokenCookieName(config))
      access_token == Decrypt(access_token_cookie.val)
      with_access ==
        [MutableOk(with_id) EXCEPT
           !.headers = SetHeader(@, config.access_token.header,
                          EncodeHeaderValue(config.access_token.preamble,
                                            access_token.val))]
  IN  IF ~id_token_cookie.has
      THEN [ok |-> FALSE, response |-> response, decrypts |-> <<>>, log |-> <<>>]
      ELSE IF ~id_token.has
      THEN [ok |-> FALSE, response |-> response,
            decrypts |-> <<id_token_cookie.val>>,
            log |-> <<Log("info", <<"Process", ": id token cookie decryption failed">>)>>]
      ELSE IF ~ForwardsAccessToken(config)
      THEN [ok |-> TRUE, response |-> with_id,
            decrypts |-> <<id_token_cookie.val>>, log |-> <<>>]
      ELSE IF ~access_token_cookie.has
      THEN [ok |-> FALSE, response |-> with_id,
            decrypts |-> <<id_token_cookie.val>>,
            log |-> <<Log("info", <<"Process", ": access token cookie missing">>)>>]
      ELSE IF ~access_token.has
      THEN [ok |-> FALSE, response |-> with_id,
            decrypts |-> <<id_token_cookie.val, access_token_cookie.val>>,
            log |-> <<Log("info",
                          <<"Process", ": access token cookie decryption failed">>)>>]
      ELSE [ok |-> TRUE, response |-> with_access,
            decrypts |-> <<id_token_cookie.val, access_token_cookie.val>>,
            log |-> <<>>]

\* Mutant: the path is compared with its query string still on it.
IsCallbackWholePath(config, request) ==
  /\ request.host = config.callback.hostname
  /\ request.path = config.callback.path

\* Process, the callback test: host and query-stripped path equal the
\* configured callback's.
IsCallback(config, request) ==
  LET path_parts == DecodePath(request.path)
  IN  /\ request.host = config.callback.hostname
      /\ path_parts[1] = config.callback.path

\* Mutant: the mandatory scope is not added to the configured ones.
EncodedScopesNoMandatory(config) ==
  LET scopes == { config.scopes[i] : i \in 1..Len(config.scopes) }
      sorted == SelectSeq(ScopeUniverse, LAMBDA x : x \in scopes)
  IN  StrJoin([i \in 1..Len(sorted) |-> <<sorted[i]>>], " ")

\* RedirectToIdP: the scope set {openid} \cup scopes, space-joined.
EncodedScopes(config) ==
  LET scopes == {"openid"} \cup { config.scopes[i] : i \in 1..Len(config.scopes) }
      sorted == SelectSeq(ScopeUniverse, LAMBDA x : x \in scopes)
  IN  StrJoin([i \in 1..Len(sorted) |-> <<sorted[i]>>], " ")

\* Mutant: the state cookie carries the encoded pair unencrypted.
StateTokenPlain(state, nonce) == CodecEncode(state, nonce)

\* RedirectToIdP: the value of the state cookie.
StateToken(state, nonce) == Encrypt(CodecEncode(state, nonce))

\* RedirectToIdP, given the two values the generator returned.
RedirectToIdPWith(config, response, state, nonce) ==
  LET callback == ToUrl(config.callback)
      params == << <<<<"client_id">>, config.client_id>>,
                   <<<<"nonce">>, nonce>>,
                   <<<<"redirect_uri">>, callback>>,
                   <<<<"response_type">>, <<"code">>>>,
                   <<<<"scope">>, EncodedScopes(config)>>,
                   <<<<"state">>, state>> >>
      query == EncodeQueryData(params)
      redirected ==
        SetRedirectHeaders(ToUrl(config.authorization) \o <<"?">> \o query,
                           response)
  IN  [MutableDenied(redirected) EXCEPT
         !.headers = SetStateCookie(config, @, StateToken(state, nonce),
                                    config.timeout)]

\* Mutant: the state cookie is not deleted.
DeleteStateCookieNot(config, response) == MutableDenied(response)

\* RetrieveToken: "Best effort at deleting state cookie for all cases."
DeleteStateCookie(config, response) ==
  [MutableDenied(response) EXCEPT
     !.headers = SetStateCookie(config, @, <<"deleted">>, <<0>>)]

\* Mutant: the state comparison is dropped.
StateMismatchNever(query_state, cookie_state) == FALSE

\* RetrieveToken: `state->second != state_and_nonce->first`
StateMismatch(query_state, cookie_state) == query_state # cookie_state

\* RetrieveToken: the POST to the token endpoint.
TokenRequest(config, code) ==
  LET authorization == EncodeBasicAuth(config.client_id, config.client_secret)
      redirect_uri == ToUrl(config.callback)
      params == << <<<<"code">>, code>>,
                   <<<<"grant_type">>, <<"authorization_code">>>>,
                   <<<<"redirect_uri">>, redirect_uri>> >>
  IN  [endpoint |-> config.token,
       headers  |-> << <<"authorization", authorization>>,
                       <<"content-type", <<"application/x-www-form-urlencoded">>>> >>,
       body     |-> EncodeQueryData(params)]

\* Mutant: the request is sent a second time.
PostWithRetry(sent, token_request) ==
  Append(Append(sent, token_request), token_request)

\* RetrieveToken: the call of http_ptr_->Post, which sends one request.
Post(sent, token_request) == Append(sent, token_request)

\* RetrieveToken up to the call of http_ptr_->Post: either a failure code or
\* the state, nonce and code it goes on with.
\* Mutant: only the state parameter is looked for.
MissingParametersStateOnly(state, code) == ~state.has

\* RetrieveToken: `state == query_data->end() || code == query_data->end()`
MissingParameters(state, code) == ~state.has \/ ~code.has

\* Mutant: the parser is given the state where the nonce is expected.
ExpectedNonceFromState(state_and_nonce) == state_and_nonce[1]

\* RetrieveToken: the nonce handed to parser_->Parse, state_and_nonce->second.
ExpectedNonce(state_and_nonce) == state_and_nonce[2]

RetrieveTokenStart(config, request, response, query) ==
  LET deleted == DeleteStateCookie(config, response)
      encrypted_state_cookie ==
        CookieFromHeaders(request.headers, GetStateCookieName(config))
      state_cookie == Decrypt(encrypted_state_cookie.val)
      state_and_nonce == CodecDecode(state_cookie.val)
      query_data == DecodeQueryData(query)
      state == Find(query_data.val, <<"state">>)
      code == Find(query_data.val, <<"code">>)
      fail(ds, text) ==
        [code |-> "INVALID_ARGUMENT", response |-> deleted, decrypts |-> ds,
         log |-> <<Log("trace", <<"RetrieveToken">>),
                   Log("info", <<"RetrieveToken">> \o text)>>,
         cookie_state |-> <<>>, nonce |-> <<>>, auth_code |-> <<>>]
  IN  IF ~encrypted_state_cookie.has
      THEN fail(<<>>, <<": missing state cookie">>)
      ELSE IF ~state_cookie.has
      THEN fail(<<encrypted_state_cookie.val>>, <<": invalid state cookie">>)
      ELSE IF ~state_and_nonce.has
      THEN fail(<<encrypted_state_cookie.val>>,
                <<": invalid state cookie encoding">>)
      ELSE IF ~query_data.has
      THEN fail(<<encrypted_state_cookie.val>>, <<": form data is invalid">>)
      ELSE IF MissingParameters(state, code)
      THEN fail(<<encrypted_state_cookie.val>>,
                <<": form data does not contain expected state and code parameters">>)
      ELSE IF StateMismatch(state.val, state_and_nonce.val[1])
      THEN fail(<<encrypted_state_cookie.val>>, <<": mismatch state">>)
      ELSE [code |-> "POST", response |-> deleted,
            decrypts |-> <<encrypted_state_cookie.val>>,
            log |-> <<Log("trace", <<"RetrieveToken">>)>>,
            cookie_state |-> state_and_nonce.val[1],
            nonce |-> ExpectedNonce(state_and_nonce.val),
            auth_code |-> code.val]

\* boost::beast::http::status::ok
HttpOk == 200

\* A token-endpoint response body, as the parser reads it.
Body(wellformed, aud, nonce, jwt, access_token, expiry) ==
  [wellformed |-> wellformed, aud |-> aud, nonce |-> nonce, jwt |-> jwt,
   access_token |-> access_token, expiry |-> expiry]

Jwts == {Jwt, <<"jwt-2">>}

Bodies ==
  {Body(FALSE, <<>>, <<>>, <<>>, None, None),
   Body(TRUE, <<"other-client">>, <<"rnd", "1">>, Jwt, Some(AccessTok), None)}
    \cup { Body(TRUE, ClientId, n, j, at, ex) :
             n \in Randoms, j \in Jwts, at \in {None, Some(AccessTok)},
             ex \in {None, Some(<<3, 6, 0, 0>>)} }

\* What http_ptr_->Post can return: nullptr, or a response.
HttpResults ==
  {[null |-> TRUE, status |-> 0, body |-> Body(FALSE, <<>>, <<>>, <<>>, None, None)],
   [null |-> FALSE, status |-> 500,
    body |-> Body(FALSE, <<>>, <<>>, <<>>, None, None)]}
    \cup { [null |-> FALSE, status |-> HttpOk, body |-> b] : b \in Bodies }

\* Mutant: the session cookie carries the token as it is.
SessionCookieValuePlain(token) == token

\* RetrieveToken: the value of a session cookie.
SessionCookieValue(token) == Encrypt(token)

\* Mutant: the access token is never required.
ExpectsAccessTokenNever(config) == FALSE

\* RetrieveToken: `if (idp_config_.has_access_token())` after parsing.
ExpectsAccessToken(config) == config.has_access_token

\* Mutant: a token without expiry gets a session cookie that expires at once.
SessionTimeoutZero(token) == IF token.expiry.has THEN token.expiry.val ELSE <<0>>

\* RetrieveToken: Max-Age of the session cookies.
SessionTimeout(token) == IF token.expiry.has THEN token.expiry.val ELSE Int64Max

\* Mutant: the null test is dropped; the status test reads no status.
IsNullResponseNever(retrieve_token_response) == FALSE

\* RetrieveToken: `retrieve_token_response == nullptr`
IsNullResponse(retrieve_token_response) == retrieve_token_response.null

\* RetrieveToken from the return of http_ptr_->Post on.
RetrieveTokenFinish(config, response, nonce, retrieve_token_response) ==
  LET token == Parse(config.client_id, nonce, retrieve_token_response.body)
      parsed == <<[client_id |-> config.client_id, nonce |-> nonce,
                   body |-> retrieve_token_response.body]>>
      timeout_directive == EncodeCookieTimeoutDirective(SessionTimeout(token.val))
      directives == CookieDirectives(timeout_directive)
      access_token == token.val.access_token
      with_access ==
        IF ExpectsAccessToken(config)
        THEN [MutableDenied(response) EXCEPT
                !.headers = SetHeader(@, "set-cookie",
                    EncodeSetCookie(GetAccessTokenCookieName(config),
                                    SessionCookieValue(access_token.val),
                                    directives))]
        ELSE response
      redirected == SetRedirectHeaders(config.landing_page, with_access)
      with_id ==
        [MutableDenied(redirected) EXCEPT
           !.headers = SetHeader(@, "set-cookie",
               EncodeSetCookie(GetIdTokenCookieName(config),
                               SessionCookieValue(token.val.jwt), directives))]
  IN  IF IsNullResponse(retrieve_token_response)
      THEN [code |-> "INTERNAL", response |-> response, parses |-> <<>>,
            log |-> <<Log("info", <<"RetrieveToken", ": HTTP error encountered: ",
                                    "IdP connection error">>)>>]
      ELSE IF retrieve_token_response.status # HttpOk
      THEN [code |-> "UNKNOWN", response |-> response, parses |-> <<>>,
            log |-> <<Log("info", <<"RetrieveToken", ": HTTP token response error: ",
                                    ToString(retrieve_token_response.status)>>)>>]
      ELSE IF ~token.has
      THEN [code |-> "INVALID_ARGUMENT", response |-> response, parses |-> parsed,
            log |-> <<Log("info", <<"RetrieveToken", ": Invalid token response">>)>>]
      ELSE IF ExpectsAccessToken(config) /\ ~access_token.has
      THEN [code |-> "INVALID_ARGUMENT", response |-> response, parses |-> parsed,
            log |-> <<Log("info",
                          <<"RetrieveToken", ": Missing expected access_token">>)>>]
      ELSE [code |-> "UNAUTHENTICATED", response |-> with_id, parses |-> parsed,
            log |-> <<>>]

----------------------------------------------------------------------------
(* State *)

VARIABLES
  idp_config_,  \* the filter's configuration, fixed at construction
  order,        \* the iteration order of standard_headers in this build
  request,      \* request[c]: the CheckRequest of invocation c
  response,     \* response[c]: its CheckResponse
  pc,           \* pc[c]: where invocation c is
  code,         \* code[c]: the google::rpc::Code returned, "" before that
  local,        \* local[c]: query, state, nonce (generated, or read from the
                \* state cookie), authorization code, Post's result
  posts,        \* posts[c]: the requests handed to http_ptr_->Post
  decrypts,     \* decrypts[c]: the ciphertexts handed to cryptor_->Decrypt
  parses,       \* parses[c]: the calls of parser_->Parse
  log           \* log[c]: the spdlog records written

vars == <<idp_config_, order, request, response, pc, code, local, posts,
          decrypts, parses, log>>

NoLocal ==
  [query |-> <<>>, state |-> <<>>, nonce |-> <<>>, auth_code |-> <<>>,
   generated |-> FALSE,
   http |-> [null |-> TRUE, status |-> 0,
             body |-> Body(FALSE, <<>>, <<>>, <<>>, None, None)]]

NoRequest ==
  [has_http |-> FALSE, scheme |-> "", host |-> "", path |-> <<>>,
   headers |-> [x \in {} |-> <<>>]]

\* One invocation of Process on a constructed filter; the other is not made.
Init ==
  /\ idp_config_ \in Configs
  /\ order \in BOOLEAN
  /\ \E r \in Requests(idp_config_) :
        request = [c \in Calls |-> IF c = 1 THEN r ELSE NoRequest]
  /\ response = [c \in Calls |-> EmptyResponse]
  /\ pc = [c \in Calls |-> IF c = 1 THEN "Process" ELSE "off"]
  /\ code = [c \in Calls |-> ""]
  /\ local = [c \in Calls |-> NoLocal]
  /\ posts = [c \in Calls |-> <<>>]
  /\ decrypts = [c \in Calls |-> <<>>]
  /\ parses = [c \in Calls |-> <<>>]
  /\ log = [c \in Calls |-> <<>>]

----------------------------------------------------------------------------
(* Actions: the steps of one invocation c of Process *)

\* Mutant: an invocation returns without a code.
ReturnNoCode(c, rc) ==
  /\ UNCHANGED code
  /\ pc' = [pc EXCEPT ![c] = "done"]

\* Mutant: the return code is kept in one place for all invocations.
ReturnShared(c, rc) ==
  /\ code' = [k \in Calls |-> rc]
  /\ pc' = [pc EXCEPT ![c] = "done"]

Return(c, rc) ==
  /\ code' = [code EXCEPT ![c] = rc]
  /\ pc' = [pc EXCEPT ![c] = "done"]

\* Process: entry logging and the test for the HTTP envelope.
Preflight(c) ==
  /\ pc[c] = "Process"
  /\ LET entry == <<Log("trace", <<"Process">>),
                    Log("debug", <<"Call from ", "src", "@", "src-addr", " to ",
                                   "dst", "@", "dst-addr">>)>>
     IN  IF ~request[c].has_http
         THEN /\ log' = [log EXCEPT ![c] = @ \o entry \o
                           <<Log("info", <<"Process", ": missing http in request">>)>>]
              /\ response' = [response EXCEPT
                                ![c] = SetStandardResponseHeaders(order, @)]
              /\ Return(c, "INVALID_ARGUMENT")
         ELSE /\ log' = [log EXCEPT ![c] = @ \o entry]
              /\ pc' = [pc EXCEPT ![c] = "header"]
              /\ UNCHANGED <<response, code>>
  /\ UNCHANGED <<idp_config_, order, request, local, posts, decrypts, parses>>

\* Process: let a request that already carries the id_token header through.
CheckIdTokenHeader(c) ==
  /\ pc[c] = "header"
  /\ IF HasIdTokenHeader(idp_config_, request[c])
     THEN Return(c, "OK")
     ELSE /\ pc' = [pc EXCEPT ![c] = "cookies"]
          /\ UNCHANGED code
  /\ UNCHANGED <<idp_config_, order, request, response, local, posts, decrypts,
                 parses, log>>

\* Process: accept the session cookies, or fall through.
CheckSessionCookies(c) ==
  /\ pc[c] = "cookies"
  /\ LET r == SessionCookies(idp_config_, request[c], response[c])
     IN  /\ response' = [response EXCEPT ![c] = r.response]
         /\ decrypts' = [decrypts EXCEPT ![c] = @ \o r.decrypts]
         /\ log' = [log EXCEPT ![c] = @ \o r.log]
         /\ IF r.ok
            THEN Return(c, "OK")
            ELSE /\ pc' = [pc EXCEPT ![c] = "dispatch"]
                 /\ UNCHANGED code
  /\ UNCHANGED <<idp_config_, order, request, local, posts, parses>>

\* Process: standard headers, then the choice between the callback and the
\* redirect to the IdP.
Dispatch(c) ==
  /\ pc[c] = "dispatch"
  /\ response' = [response EXCEPT ![c] = SetStandardResponseHeaders(order, @)]
  /\ log' = [log EXCEPT ![c] = Append(@,
               Log("trace", <<"Process", ": checking handler for ",
                              request[c].scheme, "://", request[c].host, "-">>
                            \o request[c].path))]
  /\ IF IsCallback(idp_config_, request[c])
     THEN /\ pc' = [pc EXCEPT ![c] = "RetrieveToken"]
          /\ local' = [local EXCEPT ![c].query = DecodePath(request[c].path)[2]]
     ELSE /\ pc' = [pc EXCEPT ![c] = "RedirectToIdP"]
          /\ UNCHANGED local
  /\ UNCHANGED <<idp_config_, order, request, code, posts, decrypts, parses>>

\* RedirectToIdP, with the state and nonce the generator returns.
RedirectToIdP(c) ==
  /\ pc[c] = "RedirectToIdP"
  /\ \E state \in Randoms, nonce \in Randoms :
        /\ response' = [response EXCEPT
                          ![c] = RedirectToIdPWith(idp_config_, @, state, nonce)]
        /\ local' = [local EXCEPT ![c].state = state, ![c].nonce = nonce,
                                  ![c].generated = TRUE]
  /\ Return(c, "UNAUTHENTICATED")
  /\ UNCHANGED <<idp_config_, order, request, posts, decrypts, parses, log>>

\* RetrieveToken: delete the state cookie, validate the callback, and post
\* the authorization code to the token endpoint.
RetrieveTokenPost(c) ==
  /\ pc[c] = "RetrieveToken"
  /\ LET r == RetrieveTokenStart(idp_config_, request[c], response[c],
                                 local[c].query)
     IN  /\ response' = [response EXCEPT ![c] = r.response]
         /\ decrypts' = [decrypts EXCEPT ![c] = @ \o r.decrypts]
         /\ log' = [log EXCEPT ![c] = @ \o r.log]
         /\ IF r.code = "POST"
            THEN /\ posts' = [posts EXCEPT
                                ![c] = Post(@, TokenRequest(idp_config_,
                                                            r.auth_code))]
                 /\ local' = [local EXCEPT ![c].state = r.cookie_state,
                                           ![c].nonce = r.nonce,
                                           ![c].auth_code = r.auth_code]
                 /\ pc' = [pc EXCEPT ![c] = "Post"]
                 /\ UNCHANGED code
            ELSE /\ Return(c, r.code)
                 /\ UNCHANGED <<posts, local>>
  /\ UNCHANGED <<idp_config_, order, request, parses>>

\* RetrieveToken: http_ptr_->Post returns, and the rest of the function runs.
RetrieveTokenReturn(c) ==
  /\ pc[c] = "Post"
  /\ \E result \in HttpResults :
        LET r == RetrieveTokenFinish(idp_config_, response[c], local[c].nonce,
                                     result)
        IN  /\ response' = [response EXCEPT ![c] = r.response]
            /\ parses' = [parses EXCEPT ![c] = @ \o r.parses]
            /\ log' = [log EXCEPT ![c] = @ \o r.log]
            /\ local' = [local EXCEPT ![c].http = result]
            /\ Return(c, r.code)
  /\ UNCHANGED <<idp_config_, order, request, posts, decrypts>>

Next ==
  \E c \in Calls :
    \/ Preflight(c)
    \/ CheckIdTokenHeader(c)
    \/ CheckSessionCookies(c)
    \/ Dispatch(c)
    \/ RedirectToIdP(c)
    \/ RetrieveTokenPost(c)
    \/ RetrieveTokenReturn(c)

Spec == Init /\ [][Next]_vars

----------------------------------------------------------------------------
(* Observations of a finished invocation *)

Done(c) == pc[c] = "done"

\* s begins with prefix.
StartsWith(s, prefix) ==
  Len(s) >= Len(prefix) /\ SubSeq(s, 1, Len(prefix)) = prefix

Headers(c) == response[c].headers

HeaderIndices(c) == 1..Len(response[c].headers)

\* The response carries a Set-Cookie for the cookie of that name.
SetsCookie(c, name) ==
  \E i \in HeaderIndices(c) :
     /\ Headers(c)[i].key = "set-cookie"
     /\ StartsWith(Headers(c)[i].value, name \o <<"=">>)

SetsIdTokenCookie(c) == SetsCookie(c, GetIdTokenCookieName(idp_config_))

SetsAccessTokenCookie(c) == SetsCookie(c, GetAccessTokenCookieName(idp_config_))

\* The response carries the Set-Cookie that deletes the state cookie.
DeletesStateCookie(c) ==
  \E i \in HeaderIndices(c) :
     /\ response[c].kind = "denied"
     /\ Headers(c)[i].key = "set-cookie"
     /\ StartsWith(Headers(c)[i].value,
                   GetStateCookieName(idp_config_) \o <<"=", "deleted", "; ">>)
     /\ Occurs(<<"; ", "Max-Age", "=", "0", "; ">>, Headers(c)[i].value)

\* The response carries a header of that name.
HasHeader(c, name) ==
  \E i \in HeaderIndices(c) : Headers(c)[i].key = name

\* The response carries that header with that value.
HasHeaderValue(c, name, value) ==
  \E i \in HeaderIndices(c) :
     Headers(c)[i].key = name /\ Headers(c)[i].value = value

\* The invocation entered RetrieveToken (its entry trace was logged).
EnteredRetrieveToken(c) ==
  \E i \in 1..Len(log[c]) : log[c][i] = Log("trace", <<"RetrieveToken">>)

\* What the request's state cookie and query hold, read as RetrieveToken
\* reads them.
CookieStateOf(c) ==
  LET ck == CookieFromHeaders(request[c].headers, GetStateCookieName(idp_config_))
      plain == Decrypt(ck.val)
  IN  IF ck.has /\ plain.has THEN CodecDecode(plain.val) ELSE None

QueryOf(c) == DecodeQueryData(DecodePath(request[c].path)[2])

QueryParam(c, name) ==
  IF QueryOf(c).has THEN Find(QueryOf(c).val, <<name>>) ELSE None

----------------------------------------------------------------------------
(* Claims *)

\* The case of C1: a callback whose state cookie decodes to (s, n), whose
\* query has state and code, and whose query state is not s.
C1_Case(c) ==
  /\ Done(c)
  /\ EnteredRetrieveToken(c)
  /\ CookieStateOf(c).has
  /\ QueryParam(c, "state").has
  /\ QueryParam(c, "code").has
  /\ QueryParam(c, "state").val # CookieStateOf(c).val[1]

\* C1: a callback whose query state differs from the state in the state
\* cookie returns INVALID_ARGUMENT and sets neither the id-token cookie nor
\* the access-token cookie.
C1_StateMismatchRejected ==
  \A c \in Calls :
     C1_Case(c) =>
       /\ code[c] = "INVALID_ARGUMENT"
       /\ ~SetsIdTokenCookie(c)
       /\ ~SetsAccessTokenCookie(c)

C1_Witness ==
  \E c \in Calls : C1_Case(c) /\ code[c] = "INVALID_ARGUMENT"

\* The case of C2 as stated: a request to the callback host and path.
C2_CallbackRequest(c) ==
  /\ Done(c)
  /\ request[c].has_http
  /\ request[c].host = idp_config_.callback.hostname
  /\ DecodePath(request[c].path)[1] = idp_config_.callback.path

\* C2 as stated: every callback request gets the state-cookie deletion,
\* whatever the outcome.
C2_Original ==
  \A c \in Calls : C2_CallbackRequest(c) => DeletesStateCookie(c)

\* C2 amended: every callback request that is not let through with OK (no
\* id_token header, session cookies not accepted) gets the state-cookie
\* deletion, whatever the outcome of RetrieveToken.
C2_DeletedUnlessOk ==
  \A c \in Calls :
     (C2_CallbackRequest(c) /\ code[c] # "OK") => DeletesStateCookie(c)

C2_Witness ==
  \E c \in Calls :
     /\ C2_CallbackRequest(c)
     /\ code[c] = "UNAUTHENTICATED"
     /\ DeletesStateCookie(c)

\* The case of C3: RedirectToIdP generated a state and a nonce.
C3_Case(c) == Done(c) /\ local[c].generated

\* value shows state or nonce of invocation c outside encrypted segments.
ShowsStateOrNonce(c, value) ==
  \/ Occurs(local[c].state, Cleartext(value))
  \/ Occurs(local[c].nonce, Cleartext(value))

\* C3 as stated: the generated state and nonce occur in no response header
\* in cleartext, only inside the encrypted value of the state cookie.
C3_Original ==
  \A c \in Calls :
     C3_Case(c) =>
       \A i \in HeaderIndices(c) : ~ShowsStateOrNonce(c, Headers(c)[i].value)

\* C3 amended: the generated state and nonce occur in cleartext only in the
\* Location header (the state and nonce parameters of the authorization
\* request); in every other response header they occur only inside the
\* encrypted value of the state cookie.  The state and nonce a callback reads
\* from the state cookie occur in no response header in cleartext.
C3_CleartextOnlyInLocation ==
  \A c \in Calls :
     (Done(c) /\ local[c].state # <<>>) =>
       /\ \A i \in HeaderIndices(c) :
             ShowsStateOrNonce(c, Headers(c)[i].value) =>
               (local[c].generated /\ Headers(c)[i].key = "location")
       /\ local[c].generated =>
             \E i \in HeaderIndices(c) :
                /\ Headers(c)[i].key = "set-cookie"
                /\ StartsWith(Headers(c)[i].value,
                     GetStateCookieName(idp_config_) \o <<"=">>
                       \o Encrypt(CodecEncode(local[c].state, local[c].nonce)))

C3_Witness ==
  \E c \in Calls :
     /\ C3_Case(c)
     /\ local[c].state # local[c].nonce
     /\ \E i \in HeaderIndices(c) :
           /\ Headers(c)[i].key = "location"
           /\ Occurs(<<"state", "=">> \o local[c].state, Headers(c)[i].value)
           /\ Occurs(<<"nonce", "=">> \o local[c].nonce, Headers(c)[i].value)

\* The token endpoint answered 200 and the parser returned a token which,
\* when access_token is configured, holds an access token.
C4_TokenAccepted(c) ==
  /\ Len(posts[c]) = 1
  /\ ~local[c].http.null
  /\ local[c].http.status = 200
  /\ Len(parses[c]) = 1
  /\ parses[c][1].body = local[c].http.body
  /\ LET token == Parse(parses[c][1].client_id, parses[c][1].nonce,
                        parses[c][1].body)
     IN  /\ token.has
         /\ idp_config_.has_access_token => token.val.access_token.has

\* C4: the id-token cookie is set only in a call in which the token endpoint
\* returned 200, the parser returned a token and, when access_token is
\* configured, the token holds an access token.
C4_IdTokenCookieOnlyAfterAcceptedToken ==
  \A c \in Calls : SetsIdTokenCookie(c) => C4_TokenAccepted(c)

C4_Witness ==
  \E c \in Calls :
     /\ Done(c)
     /\ SetsIdTokenCookie(c)
     /\ idp_config_.has_access_token
     /\ C4_TokenAccepted(c)

\* The request's cookie of that name is present and decrypts.
CookieDecrypts(c, name) ==
  LET ck == CookieFromHeaders(request[c].headers, name)
  IN  ck.has /\ Decrypt(ck.val).has

\* The right-hand side of C5.
C5_Accepted(c) ==
  \/ idp_config_.id_token.header \in DOMAIN request[c].headers
  \/ /\ CookieDecrypts(c, GetIdTokenCookieName(idp_config_))
     /\ \/ ~idp_config_.has_access_token
        \/ CookieDecrypts(c, GetAccessTokenCookieName(idp_config_))

\* The case of the second sentence of C5.
C5_IdTokenAlone(c) ==
  /\ Done(c)
  /\ idp_config_.id_token.header \notin DOMAIN request[c].headers
  /\ idp_config_.has_access_token
  /\ CookieDecrypts(c, GetIdTokenCookieName(idp_config_))
  /\ ~CookieDecrypts(c, GetAccessTokenCookieName(idp_config_))

\* The invocation went on to callback detection (its trace was logged).
ReachedDispatch(c) ==
  \E i \in 1..Len(log[c]) :
     /\ log[c][i].level = "trace"
     /\ StartsWith(log[c][i].text, <<"Process", ": checking handler for ">>)

\* C5: Process returns OK exactly when the request carries the id_token
\* header, or the id-token cookie decrypts and (access_token is not
\* configured or the access-token cookie decrypts); with access_token
\* configured and no decryptable access-token cookie, a valid id-token cookie
\* alone never yields OK: the call goes on to callback detection.
C5_OkIffAccepted ==
  \A c \in Calls :
     /\ (Done(c) /\ request[c].has_http) =>
           ((code[c] = "OK") <=> C5_Accepted(c))
     /\ (Done(c) /\ ~request[c].has_http) => code[c] # "OK"
     /\ C5_IdTokenAlone(c) =>
           /\ code[c] # "OK"
           /\ ReachedDispatch(c)
           /\ response[c].kind = "denied"

C5_Witness ==
  \E c \in Calls :
     /\ C5_IdTokenAlone(c)
     /\ CookieFromHeaders(request[c].headers,
                          GetAccessTokenCookieName(idp_config_)).has
     /\ code[c] = "UNAUTHENTICATED"

\* The plaintext of the request's cookie of that name, if it decrypts.
CookiePlaintext(c, name) ==
  LET ck == CookieFromHeaders(request[c].headers, name)
  IN  IF ck.has /\ Decrypt(ck.val).has THEN {Decrypt(ck.val).val} ELSE {}

\* The id tokens and access tokens invocation c handles in plaintext: those
\* of the token response and those of the request's session cookies.
C6_Tokens(c) ==
  (IF Len(parses[c]) = 1 /\ parses[c][1].body.wellformed
   THEN {parses[c][1].body.jwt}
          \cup (IF parses[c][1].body.access_token.has
                THEN {parses[c][1].body.access_token.val} ELSE {})
   ELSE {})
    \cup CookiePlaintext(c, GetIdTokenCookieName(idp_config_))
    \cup CookiePlaintext(c, GetAccessTokenCookieName(idp_config_))

\* C6: no denial header holds the authorization code or the client secret,
\* encrypted or not, and none holds an id token or access token in
\* plaintext: a token occurs only inside the encrypted value of a Set-Cookie;
\* the code and the client secret go out in the token-endpoint POST only.
C6_NoSecretInDenial ==
  \A c \in Calls :
     response[c].kind = "denied" =>
       LET query_code == QueryParam(c, "code")
           tokens == C6_Tokens(c)
       IN  \A i \in HeaderIndices(c) :
              /\ ~Occurs(idp_config_.client_secret, Headers(c)[i].value)
              /\ local[c].auth_code # <<>> =>
                    ~Occurs(local[c].auth_code, Headers(c)[i].value)
              /\ query_code.has =>
                    ~Occurs(query_code.val, Headers(c)[i].value)
              /\ \A t \in tokens :
                    /\ ~Occurs(t, Cleartext(Headers(c)[i].value))
                    /\ Occurs(t, Headers(c)[i].value) =>
                          /\ Headers(c)[i].key = "set-cookie"
                          /\ Occurs(<<"=">> \o Encrypt(t) \o <<"; ">>,
                                    Headers(c)[i].value)

C6_Witness ==
  \E c \in Calls :
     /\ Done(c)
     /\ response[c].kind = "denied"
     /\ SetsIdTokenCookie(c)
     /\ SetsAccessTokenCookie(c)
     /\ Len(posts[c]) = 1
     /\ Occurs(local[c].auth_code, posts[c][1].body)
     /\ Occurs(idp_config_.client_secret, posts[c][1].headers[1][2])
     /\ \E t \in C6_Tokens(c), i \in HeaderIndices(c) :
           Occurs(Encrypt(t), Headers(c)[i].value)

\* The case of C7: the state check passed and the POST was made.
C7_Posted(c) == Done(c) /\ Len(posts[c]) = 1

\* No session cookie, no redirect, and the state cookie deleted.
C7_ErrorResponse(c) ==
  /\ ~SetsIdTokenCookie(c)
  /\ ~SetsAccessTokenCookie(c)
  /\ ~HasHeader(c, "location")
  /\ response[c].status # 302
  /\ DeletesStateCookie(c)

\* C7: after the state check, a null result of the HTTP client yields
\* INTERNAL and a non-200 response yields UNKNOWN; either way no session
\* cookie and no Location/302 is set and the state-cookie deletion stays.
C7_TransportErrors ==
  \A c \in Calls :
     /\ (C7_Posted(c) /\ local[c].http.null) =>
           (code[c] = "INTERNAL" /\ C7_ErrorResponse(c))
     /\ (C7_Posted(c) /\ ~local[c].http.null /\ local[c].http.status # 200) =>
           (code[c] = "UNKNOWN" /\ C7_ErrorResponse(c))

C7_Witness ==
  \E c \in Calls :
     /\ C7_Posted(c)
     /\ local[c].http.null
     /\ code[c] = "INTERNAL"
     /\ C7_ErrorResponse(c)

C7_WitnessUnknown ==
  \E c \in Calls :
     /\ C7_Posted(c)
     /\ ~local[c].http.null
     /\ local[c].http.status = 500
     /\ code[c] = "UNKNOWN"

\* C8: every response returned with a code other than OK is a denial that
\* carries Cache-Control: no-cache and Pragma: no-cache.
C8_DenialsNoCache ==
  \A c \in Calls :
     (Done(c) /\ code[c] # "OK") =>
       /\ response[c].kind = "denied"
       /\ HasHeaderValue(c, "cache-control", <<"no-cache">>)
       /\ HasHeaderValue(c, "pragma", <<"no-cache">>)

C8_Witness ==
  \E c \in Calls :
     /\ Done(c)
     /\ ~request[c].has_http
     /\ code[c] = "INVALID_ARGUMENT"
     /\ HasHeaderValue(c, "pragma", <<"no-cache">>)

C8_WitnessCallback ==
  \E c \in Calls :
     /\ Done(c)
     /\ EnteredRetrieveToken(c)
     /\ code[c] = "UNKNOWN"
     /\ HasHeaderValue(c, "cache-control", <<"no-cache">>)

\* The case of C9: the request carries the configured id_token header.
C9_Case(c) ==
  /\ Done(c)
  /\ request[c].has_http
  /\ idp_config_.id_token.header \in DOMAIN request[c].headers

\* C9: a request that carries the id_token header returns OK with the
\* response untouched, no Decrypt and no POST, whatever its cookies, host
\* and path.
C9_BypassUnchanged ==
  \A c \in Calls :
     C9_Case(c) =>
       /\ code[c] = "OK"
       /\ response[c] = EmptyResponse
       /\ decrypts[c] = <<>>
       /\ posts[c] = <<>>
       /\ parses[c] = <<>>

C9_Witness ==
  \E c \in Calls :
     /\ C9_Case(c)
     /\ code[c] = "OK"
     /\ C2_CallbackRequest(c)
     /\ CookieDecrypts(c, GetIdTokenCookieName(idp_config_))
     /\ CookieStateOf(c).has

\* The denial is a redirect: status 302 with a Location header.
C10_Redirects(c) ==
  /\ response[c].kind = "denied"
  /\ response[c].status = 302
  /\ HasHeader(c, "location")

\* C10: Process returns UNAUTHENTICATED exactly when the response is a 302
\* with a Location header; an INVALID_ARGUMENT, INTERNAL or UNKNOWN response
\* has neither the 302 status nor a Location header.
C10_UnauthenticatedIffRedirect ==
  \A c \in Calls :
     Done(c) =>
       /\ (code[c] = "UNAUTHENTICATED") <=> C10_Redirects(c)
       /\ code[c] \in {"INVALID_ARGUMENT", "INTERNAL", "UNKNOWN"} =>
             (response[c].status # 302 /\ ~HasHeader(c, "location"))
       /\ code[c] = "UNAUTHENTICATED" =>
             \/ /\ local[c].generated
                /\ \E i \in HeaderIndices(c) :
                      /\ Headers(c)[i].key = "location"
                      /\ StartsWith(Headers(c)[i].value,
                                    ToUrl(idp_config_.authorization) \o <<"?">>)
             \/ /\ ~local[c].generated
                /\ HasHeaderValue(c, "location", idp_config_.landing_page)

C10_Witness ==
  \E c \in Calls :
     /\ Done(c)
     /\ code[c] = "UNAUTHENTICATED"
     /\ ~local[c].generated
     /\ C10_Redirects(c)

C10_WitnessIdP ==
  \E c \in Calls :
     /\ Done(c)
     /\ code[c] = "UNAUTHENTICATED"
     /\ local[c].generated
     /\ C10_Redirects(c)

\* The pieces of a Set-Cookie value: name=value first, then the directives.
SetCookiePieces(value) == StrSplit(value, "; ")

Digits == {"0", "1", "2", "3", "4", "5", "6", "7", "8", "9"}

\* piece is Max-Age=<seconds>.
IsMaxAge(piece) ==
  /\ Len(piece) >= 3
  /\ piece[1] = "Max-Age"
  /\ piece[2] = "="
  /\ \A i \in 3..Len(piece) : piece[i] \in Digits

\* The Set-Cookie value names a __Host- cookie and carries exactly the
\* directives HttpOnly, SameSite=Lax, Secure, Path=/ and one Max-Age.
C11_WellFormedSetCookie(value) ==
  LET pieces == SetCookiePieces(value)
      directives == { pieces[i] : i \in 2..Len(pieces) }
  IN  /\ value[1] = "__Host-"
      /\ Len(pieces) = 6
      /\ {<<"HttpOnly">>, <<"SameSite=Lax">>, <<"Secure">>, <<"Path=/">>}
            \subseteq directives
      /\ Cardinality({ d \in directives : IsMaxAge(d) }) = 1
      /\ Cardinality(directives) = 5

\* C11: every Set-Cookie header of a response names a cookie beginning with
\* __Host- and carries exactly the directive set {HttpOnly, SameSite=Lax,
\* Secure, Path=/, Max-Age=<seconds>}.
C11_CookieDirectives ==
  \A c \in Calls :
     \A i \in HeaderIndices(c) :
        Headers(c)[i].key = "set-cookie" =>
          C11_WellFormedSetCookie(Headers(c)[i].value)

\* A callback that set all three cookies, under a configured name prefix.
C11_Witness ==
  \E c \in Calls :
     /\ Done(c)
     /\ idp_config_.cookie_name_prefix # <<>>
     /\ DeletesStateCookie(c)
     /\ SetsIdTokenCookie(c)
     /\ SetsAccessTokenCookie(c)
     /\ Cardinality({ i \in HeaderIndices(c) :
                        Headers(c)[i].key = "set-cookie" }) = 3

\* A redirect to the IdP that issued the state cookie.
C11_WitnessIssue ==
  \E c \in Calls :
     /\ Done(c)
     /\ local[c].generated
     /\ SetsCookie(c, GetStateCookieName(idp_config_))

\* The request is addressed to the callback: host and query-stripped path.
OnCallback(c) ==
  /\ request[c].has_http
  /\ request[c].host = idp_config_.callback.hostname
  /\ DecodePath(request[c].path)[1] = idp_config_.callback.path

\* The callback validated: state cookie found, decrypted and decoded, query
\* with state and code, and the query state equal to the cookie state.
C12_Validated(c) ==
  /\ OnCallback(c)
  /\ ~C5_Accepted(c)
  /\ EnteredRetrieveToken(c)
  /\ CookieStateOf(c).has
  /\ QueryParam(c, "state").has
  /\ QueryParam(c, "code").has
  /\ QueryParam(c, "state").val = CookieStateOf(c).val[1]

\* C12: an invocation makes at most one POST, also after a null or non-200
\* result, and makes it only on the callback path after the state cookie was
\* found, decrypted and decoded and the query state equalled the cookie
\* state; the POST goes to the token endpoint.
C12_AtMostOnePost ==
  \A c \in Calls :
     /\ Len(posts[c]) <= 1
     /\ Len(posts[c]) = 1 =>
           /\ C12_Validated(c)
           /\ posts[c][1].endpoint = idp_config_.token
     /\ (Done(c) /\ posts[c] # <<>>) => C12_Validated(c)

\* A POST that failed and was not repeated.
C12_Witness ==
  \E c \in Calls :
     /\ Done(c)
     /\ C12_Validated(c)
     /\ Len(posts[c]) = 1
     /\ local[c].http.null
     /\ code[c] = "INTERNAL"

\* A callback rejected at the state comparison, with no POST.
C12_WitnessRejected ==
  \E c \in Calls :
     /\ C1_Case(c)
     /\ posts[c] = <<>>

\* The headers Process writes to the OK side.
OkHeaderNames ==
  {idp_config_.id_token.header, idp_config_.access_token.header}

\* The case of C13: a valid id-token cookie was decrypted and its header
\* written to the OK side, and the call then fell through to Step 4.
C13_FellThrough(c) ==
  /\ Done(c)
  /\ C5_IdTokenAlone(c)
  /\ Len(decrypts[c]) >= 1
  /\ Decrypt(decrypts[c][1]).has

\* C13: a response has at most one side populated: an OK response holds only
\* the forwarded token headers and no status, a denial holds none of them;
\* after a fall-through from a valid id-token cookie the final response is a
\* denial that does not carry the decrypted id token.
C13_OneSide ==
  \A c \in Calls :
     /\ response[c].kind = "ok" =>
           /\ response[c].status = 0
           /\ \A i \in HeaderIndices(c) : Headers(c)[i].key \in OkHeaderNames
     /\ response[c].kind = "denied" =>
           \A i \in HeaderIndices(c) : Headers(c)[i].key \notin OkHeaderNames
     /\ response[c].kind = "none" => Headers(c) = <<>>
     /\ C13_FellThrough(c) =>
           /\ response[c].kind = "denied"
           /\ \A i \in HeaderIndices(c) :
                 ~Occurs(Decrypt(decrypts[c][1]).val,
                         Cleartext(Headers(c)[i].value))

C13_Witness ==
  \E c \in Calls :
     /\ C13_FellThrough(c)
     /\ response[c].kind = "denied"
     /\ Len(Headers(c)) >= 3

\* The values C14 keeps out of the logs of invocation c: the client secret,
\* the authorization code and state of the query, the state and nonce
\* generated or read from the state cookie, and the tokens.
C14_Secrets(c) ==
  {idp_config_.client_secret}
    \cup (IF QueryParam(c, "code").has THEN {QueryParam(c, "code").val} ELSE {})
    \cup (IF QueryParam(c, "state").has THEN {QueryParam(c, "state").val} ELSE {})
    \cup (IF local[c].state # <<>> THEN {local[c].state, local[c].nonce} ELSE {})
    \cup C6_Tokens(c)

\* C14: no log record of an invocation holds the client secret, the
\* authorization code, the id token, the access token, the nonce or the
\* state, also when the request is a callback with code and state in its
\* query string.
C14_NoSecretInLogs ==
  \A c \in Calls :
     \A i \in 1..Len(log[c]) :
        \A s \in C14_Secrets(c) : ~Occurs(s, log[c][i].text)

\* The decimal text of an int64 value, digit by digit.
C15_DigitNames == <<"0", "1", "2", "3", "4", "5", "6", "7", "8", "9">>

C15_Decimal(n) == [i \in 1..Len(n) |-> C15_DigitNames[n[i] + 1]]

\* 2^63 - 1 in decimal.
C15_MaxInt64Text ==
  <<"9", "2", "2", "3", "3", "7", "2", "0", "3", "6",
    "8", "5", "4", "7", "7", "5", "8", "0", "7">>

\* The seconds of the Max-Age directives of a Set-Cookie value.
C15_MaxAges(value) ==
  LET pieces == SetCookiePieces(value)
  IN  { SubSeq(pieces[i], 3, Len(pieces[i])) :
          i \in { j \in 2..Len(pieces) : IsMaxAge(pieces[j]) } }

\* The Set-Cookie values of the response for the cookie of that name.
C15_SetCookies(c, name) ==
  { Headers(c)[i].value :
      i \in { j \in HeaderIndices(c) :
                /\ Headers(c)[j].key = "set-cookie"
                /\ StartsWith(Headers(c)[j].value, name \o <<"=">>) } }

\* The Max-Age the session cookies of invocation c are to carry.
C15_SessionMaxAge(c) ==
  IF local[c].http.body.expiry.has
  THEN C15_Decimal(local[c].http.body.expiry.val)
  ELSE C15_MaxInt64Text

\* C15: the issued state cookie has Max-Age config.timeout; the id-token
\* cookie and the access-token cookie have Max-Age token.Expiry() when the
\* token has one and 9223372036854775807 otherwise.
C15_MaxAgeValues ==
  \A c \in Calls :
     /\ local[c].generated =>
          \A v \in C15_SetCookies(c, GetStateCookieName(idp_config_)) :
             C15_MaxAges(v) = {C15_Decimal(idp_config_.timeout)}
     /\ \A v \in C15_SetCookies(c, GetIdTokenCookieName(idp_config_))
                   \cup C15_SetCookies(c, GetAccessTokenCookieName(idp_config_)) :
             C15_MaxAges(v) = {C15_SessionMaxAge(c)}

\* A callback whose token has no expiry set both session cookies.
C15_Witness ==
  \E c \in Calls :
     /\ Done(c)
     /\ ~local[c].http.body.expiry.has
     /\ SetsIdTokenCookie(c)
     /\ SetsAccessTokenCookie(c)

\* A callback whose token expires in 3600 seconds set the id-token cookie.
C15_WitnessExpiry ==
  \E c \in Calls :
     /\ Done(c)
     /\ local[c].http.body.expiry.has
     /\ C15_SessionMaxAge(c) = <<"3", "6", "0", "0">>
     /\ SetsIdTokenCookie(c)

\* A redirect to the IdP issued the state cookie with Max-Age=60.
C15_WitnessState ==
  \E c \in Calls :
     /\ Done(c)
     /\ local[c].generated
     /\ \E v \in C15_SetCookies(c, GetStateCookieName(idp_config_)) :
           C15_MaxAges(v) = {<<"6", "0">>}

\* The values of the Location headers of the response.
C16_Locations(c) ==
  { Headers(c)[i].value :
      i \in { j \in HeaderIndices(c) : Headers(c)[j].key = "location" } }

\* The values the decoded query gives to that key.
C16_Values(pairs, key) ==
  { pairs[i][2] : i \in { j \in 1..Len(pairs) : pairs[j][1] = <<key>> } }

\* scope is the space-joined, duplicate-free union of openid and the
\* configured scopes.
C16_ScopeOk(scope) ==
  LET names == StrSplit(scope, " ")
  IN  /\ Cardinality({ names[i] : i \in 1..Len(names) }) = Len(names)
      /\ { names[i] : i \in 1..Len(names) }
           = {<<"openid">>}
               \cup { <<idp_config_.scopes[i]>> : i \in 1..Len(idp_config_.scopes) }

\* location is the authorization request of invocation c.
C16_AuthorizationRequest(c, location) ==
  LET parts == DecodePath(location)
      query == DecodeQueryData(parts[2])
  IN  /\ parts[1] = ToUrl(idp_config_.authorization)
      /\ query.has
      /\ Len(query.val) = 6
      /\ C16_Values(query.val, "response_type") = {<<"code">>}
      /\ C16_Values(query.val, "client_id") = {idp_config_.client_id}
      /\ C16_Values(query.val, "state") = {local[c].state}
      /\ C16_Values(query.val, "nonce") = {local[c].nonce}
      /\ C16_Values(query.val, "redirect_uri") = {ToUrl(idp_config_.callback)}
      /\ \E scope \in C16_Values(query.val, "scope") :
            /\ C16_Values(query.val, "scope") = {scope}
            /\ C16_ScopeOk(scope)

\* C16: for every request routed to the IdP the Location header is the
\* authorization endpoint URL followed by a query with response_type=code,
\* client_id, state, nonce, redirect_uri=to_url(callback) and a scope that is
\* the space-joined duplicate-free union of openid and the configured scopes.
C16_LocationOfRedirect ==
  \A c \in Calls :
     local[c].generated =>
       /\ Cardinality(C16_Locations(c)) = 1
       /\ \A location \in C16_Locations(c) : C16_AuthorizationRequest(c, location)

\* A request was routed to the IdP under a configuration without scopes.
C16_Witness ==
  \E c \in Calls :
     /\ Done(c)
     /\ local[c].generated
     /\ idp_config_.scopes = <<>>
     /\ \E location \in C16_Locations(c) :
           Occurs(<<"scope", "=", "openid", "&">>, location)

\* A request was routed to the IdP under a configuration that lists openid.
C16_WitnessListed ==
  \E c \in Calls :
     /\ Done(c)
     /\ local[c].generated
     /\ \E i \in 1..Len(idp_config_.scopes) : idp_config_.scopes[i] = "openid"
     /\ \E location \in C16_Locations(c) :
           Occurs(<<"scope", "=", "email", "%20", "openid", "%20", "profile", "&">>,
                  location)

\* Where the query of a path starts: the position of its first "?", or one
\* past its end.
C20_QueryMark(path) ==
  IF \E i \in 1..Len(path) : path[i] = "?"
  THEN CHOOSE i \in 1..Len(path) : path[i] = "?" /\ \A j \in 1..(i-1) : path[j] # "?"
  ELSE Len(path) + 1

\* The request matches the callback: its host is the callback hostname and
\* its path, stripped at the first "?", is the callback path.
C20_Matches(c) ==
  /\ request[c].host = idp_config_.callback.hostname
  /\ SubSeq(request[c].path, 1, C20_QueryMark(request[c].path) - 1)
       = idp_config_.callback.path

\* The request reaches Step 4: HTTP envelope, no bypass header, session
\* cookies not accepted.
C20_ReachesStep4(c) ==
  /\ request[c].has_http
  /\ idp_config_.id_token.header \notin DOMAIN request[c].headers
  /\ ~C5_Accepted(c)

\* value is a state cookie with an encrypted (state, nonce) payload.
C20_StatePayload(value) ==
  LET pieces == SetCookiePieces(value)
      name == GetStateCookieName(idp_config_) \o <<"=">>
      payload == SubSeq(pieces[1], Len(name) + 1, Len(pieces[1]))
  IN  /\ StartsWith(pieces[1], name)
      /\ Decrypt(payload).has
      /\ CodecDecode(Decrypt(payload).val).has

\* The response issues a state cookie with an encrypted payload.
C20_IssuesPayload(c) ==
  \E i \in HeaderIndices(c) :
     /\ response[c].kind = "denied"
     /\ Headers(c)[i].key = "set-cookie"
     /\ C20_StatePayload(Headers(c)[i].value)

\* The response issues that cookie with Max-Age=config.timeout.
C20_IssuesStateCookie(c) ==
  \E i \in HeaderIndices(c) :
     /\ response[c].kind = "denied"
     /\ Headers(c)[i].key = "set-cookie"
     /\ C20_StatePayload(Headers(c)[i].value)
     /\ C15_MaxAges(Headers(c)[i].value) = {C15_Decimal(idp_config_.timeout)}

\* C20: a state cookie with an encrypted (state, nonce) payload and
\* Max-Age=config.timeout is issued exactly when the request reaches Step 4
\* and does not match the callback (host equal to the callback hostname, path
\* stripped at the first "?" equal to the callback path); on a match
\* RetrieveToken is entered with the raw query and no state cookie payload
\* is issued.
C20_StateCookieIssuedOnRedirect ==
  \A c \in Calls :
     Done(c) =>
       LET step4 == C20_ReachesStep4(c)
           matches == C20_Matches(c)
           issues == C20_IssuesStateCookie(c)
           payload == C20_IssuesPayload(c)
       IN  /\ issues <=> (step4 /\ ~matches)
           /\ payload => issues
           /\ (step4 /\ matches) =>
                /\ EnteredRetrieveToken(c)
                /\ local[c].query
                     = SubSeq(request[c].path, C20_QueryMark(request[c].path) + 1,
                              Len(request[c].path))
                /\ ~payload
           /\ EnteredRetrieveToken(c) => (step4 /\ matches)

\* A request to the callback path with a second path segment before its
\* query was given a state cookie.
C20_Witness ==
  \E c \in Calls :
     /\ Done(c)
     /\ request[c].host = idp_config_.callback.hostname
     /\ StartsWith(request[c].path, idp_config_.callback.path \o <<"/x", "?">>)
     /\ C20_IssuesStateCookie(c)

\* A callback with a second "?" in its query entered RetrieveToken with the
\* query from the first "?" on.
C20_WitnessMatch ==
  \E c \in Calls :
     /\ Done(c)
     /\ C20_ReachesStep4(c)
     /\ C20_Matches(c)
     /\ \E i \in 1..Len(local[c].query) : local[c].query[i] = "?"
     /\ EnteredRetrieveToken(c)

\* The callback path on another host was given a state cookie.
C20_WitnessOtherHost ==
  \E c \in Calls :
     /\ Done(c)
     /\ request[c].host # idp_config_.callback.hostname
     /\ request[c].path = idp_config_.callback.path
     /\ C20_IssuesStateCookie(c)

----------------------------------------------------------------------------
(* Two concurrent invocations on one filter *)

\* The configurations of the concurrent runs.
ConcConfigs ==
  { c \in Configs : c.cookie_name_prefix = <<>> /\ c.scopes = <<"email">> }

\* The requests of the concurrent runs: one for each way through Process.
ConcRequests(config) ==
  LET req(path, headers) ==
        [has_http |-> TRUE, scheme |-> "https", host |-> "app", path |-> path,
         headers |-> headers]
      cookies(idv, acv, stv) == ("cookie" :> CookieHeader(config, idv, acv, stv))
      state_cookie == Some(Encrypt(CodecEncode(<<"rnd", "1">>, <<"rnd", "2">>)))
  IN  { NoRequest,
        req(<<"/foo">>, [x \in {} |-> <<>>]),
        req(<<"/foo">>, (config.id_token.header :> <<"Bearer", " ", "upstream">>)),
        req(<<"/foo">>, cookies(Some(Encrypt(Jwt)), Some(Encrypt(AccessTok)), None)),
        req(<<"/foo">>, cookies(Some(Encrypt(Jwt)), None, None)),
        req(<<"/cb", "?">> \o Query(<<"rnd", "1">>), cookies(None, None, state_cookie)),
        req(<<"/cb", "?">> \o Query(<<"rnd", "2">>), cookies(None, None, state_cookie)) }

\* Two invocations of Process on one constructed filter, both under way.
InitConc ==
  /\ idp_config_ \in ConcConfigs
  /\ order \in BOOLEAN
  /\ request \in [Calls -> ConcRequests(idp_config_)]
  /\ response = [c \in Calls |-> EmptyResponse]
  /\ pc = [c \in Calls |-> "Process"]
  /\ code = [c \in Calls |-> ""]
  /\ local = [c \in Calls |-> NoLocal]
  /\ posts = [c \in Calls |-> <<>>]
  /\ decrypts = [c \in Calls |-> <<>>]
  /\ parses = [c \in Calls |-> <<>>]
  /\ log = [c \in Calls |-> <<>>]

SpecConc == InitConc /\ [][Next]_vars

\* Process run alone from entry to return on one request, given what the
\* random generator and the HTTP client return to it.
ProcessAlone(config, ord, req, state, nonce, http) ==
  LET session == SessionCookies(config, req, EmptyResponse)
      standard == SetStandardResponseHeaders(ord, session.response)
      start == RetrieveTokenStart(config, req, standard, DecodePath(req.path)[2])
      finish == RetrieveTokenFinish(config, start.response, start.nonce, http)
  IN  IF ~req.has_http
      THEN [code |-> "INVALID_ARGUMENT",
            response |-> SetStandardResponseHeaders(ord, EmptyResponse)]
      ELSE IF HasIdTokenHeader(config, req)
      THEN [code |-> "OK", response |-> EmptyResponse]
      ELSE IF session.ok
      THEN [code |-> "OK", response |-> session.response]
      ELSE IF ~IsCallback(config, req)
      THEN [code |-> "UNAUTHENTICATED",
            response |-> RedirectToIdPWith(config, standard, state, nonce)]
      ELSE IF start.code # "POST"
      THEN [code |-> start.code, response |-> start.response]
      ELSE [code |-> finish.code, response |-> finish.response]

\* What invocation c would return if it ran alone on its request with the
\* collaborator results it was given.
C17_Alone(c) ==
  ProcessAlone(idp_config_, order, request[c],
               IF local[c].generated THEN local[c].state ELSE <<>>,
               IF local[c].generated THEN local[c].nonce ELSE <<>>,
               local[c].http)

\* C17: under any interleaving of the steps of concurrent invocations, each
\* invocation's return code and response are those it would produce if run
\* alone on the same request with the same collaborator results; an
\* invocation that has not returned has no return code.
C17_Independent ==
  \A c \in Calls :
     /\ Done(c) => /\ code[c] = C17_Alone(c).code
                   /\ response[c] = C17_Alone(c).response
     /\ ~Done(c) => code[c] = ""

\* C17, the reason: a step changes one invocation's request-local state and
\* leaves the configuration and the other invocation's state as they were.
C17_NoSharedWrites ==
  [][/\ idp_config_' = idp_config_
     /\ order' = order
     /\ \E c \in Calls :
          \A k \in Calls \ {c} :
             /\ request'[k] = request[k] /\ response'[k] = response[k]
             /\ pc'[k] = pc[k] /\ code'[k] = code[k] /\ local'[k] = local[k]
             /\ posts'[k] = posts[k] /\ decrypts'[k] = decrypts[k]
             /\ parses'[k] = parses[k] /\ log'[k] = log[k]]_vars

\* An invocation was redirected to the IdP from entry to return while the
\* other, a callback, was waiting for the token endpoint.
C17_Witness ==
  /\ pc[1] = "Post"
  /\ Done(2)
  /\ code[2] = "UNAUTHENTICATED"
  /\ local[2].generated

\* Two invocations with different outcomes finished.
C17_WitnessBoth ==
  /\ Done(1) /\ Done(2)
  /\ code[1] = "OK"
  /\ code[2] = "UNAUTHENTICATED"
  /\ SetsIdTokenCookie(2)

\* Two concurrent redirects drew different states.
C17_WitnessRedirects ==
  /\ Done(1) /\ Done(2)
  /\ local[1].generated /\ local[2].generated
  /\ local[1].state # local[2].state

----------------------------------------------------------------------------
(* Termination *)

\* The program points of an invocation.
PcValues ==
  {"off", "Process", "header", "cookies", "dispatch", "RetrieveToken",
   "RedirectToIdP", "Post", "done"}

\* Invocation c, under way, moves on to another program point.
Advance(c) ==
  /\ pc[c] \notin {"off", "done"}
  /\ pc' \in [Calls -> PcValues]
  /\ pc'[c] # pc[c]

\* The thread of an invocation under way is scheduled until it returns, and
\* http_ptr_->Post returns: every step of Next moves its invocation on, and
\* every invocation under way has a step to take.
FairSpec == InitConc /\ [][Next]_vars /\ \A c \in Calls : WF_pc(Advance(c))

\* The return codes of Process.
C18_Codes ==
  {"OK", "UNAUTHENTICATED", "INVALID_ARGUMENT", "INTERNAL", "UNKNOWN"}

\* The input conditions of the five branches: preflight failure, bypass,
\* session acceptance, callback, redirect.
C18_Conditions(c) ==
  << ~request[c].has_http,
     request[c].has_http
       /\ idp_config_.id_token.header \in DOMAIN request[c].headers,
     request[c].has_http
       /\ idp_config_.id_token.header \notin DOMAIN request[c].headers
       /\ C5_Accepted(c),
     C20_ReachesStep4(c) /\ C20_Matches(c),
     C20_ReachesStep4(c) /\ ~C20_Matches(c) >>

\* The branches invocation c is seen to have taken, in the same order.
C18_Branches(c) ==
  << \E i \in 1..Len(log[c]) :
        log[c][i] = Log("info", <<"Process", ": missing http in request">>),
     code[c] = "OK" /\ decrypts[c] = <<>>,
     code[c] = "OK" /\ decrypts[c] # <<>>,
     EnteredRetrieveToken(c),
     local[c].generated >>

\* The outcome of a finished invocation: one code, one branch, and the
\* branch of its input condition.
C18_OneOutcome(c) ==
  /\ code[c] \in C18_Codes
  /\ Cardinality({ i \in 1..5 : C18_Branches(c)[i] }) = 1
  /\ Cardinality({ i \in 1..5 : C18_Conditions(c)[i] }) = 1
  /\ C18_Branches(c) = C18_Conditions(c)

\* C18: provided the HTTP client call returns, every invocation of Process
\* terminates, with exactly one of OK, UNAUTHENTICATED, INVALID_ARGUMENT,
\* INTERNAL, UNKNOWN, having taken exactly one branch (preflight failure,
\* bypass, session acceptance, callback, redirect), the one of its input
\* condition; the outcome of a finished invocation does not change.
C18_ExactlyOneOutcome ==
  /\ \A c \in Calls : (pc[c] # "off") ~> Done(c)
  /\ [](\A c \in Calls : Done(c) => C18_OneOutcome(c))
  /\ [](\A c \in Calls : ~Done(c) => code[c] = "")
  /\ [][\A c \in Calls :
          Done(c) => /\ Done(c)'
                     /\ code'[c] = code[c]
                     /\ response'[c] = response[c]]_vars

\* A callback came back from the token endpoint with a status that is not
\* 200 and finished.
C18_Witness ==
  \E c \in Calls :
     /\ Done(c)
     /\ code[c] = "UNKNOWN"
     /\ C18_Branches(c)[4]
     /\ posts[c] # <<>>

\* Every code is the outcome of some invocation.
C18_WitnessOk == \E c \in Calls : Done(c) /\ code[c] = "OK" /\ C18_Branches(c)[3]

C18_WitnessBypass == \E c \in Calls : Done(c) /\ C18_Branches(c)[2]

C18_WitnessPreflight == \E c \in Calls : Done(c) /\ C18_Branches(c)[1]

C18_WitnessRedirect == \E c \in Calls : Done(c) /\ C18_Branches(c)[5]

C18_WitnessInternal == \E c \in Calls : Done(c) /\ code[c] = "INTERNAL"

C18_WitnessInvalid ==
  \E c \in Calls : Done(c) /\ code[c] = "INVALID_ARGUMENT" /\ C18_Branches(c)[4]

----------------------------------------------------------------------------
(* A round trip: the user-agent comes back with the cookies it was given *)

\* The configurations of the round trips.
RoundConfigs ==
  { c \in Configs : c.cookie_name_prefix = <<>> /\ c.scopes # <<"email">> }

\* The first request of a round trip: one that is redirected to the IdP, and
\* a callback that validates.
RoundRequests(config) ==
  LET req(path, headers) ==
        [has_http |-> TRUE, scheme |-> "https", host |-> "app", path |-> path,
         headers |-> headers]
      state_cookie == Some(Encrypt(CodecEncode(<<"rnd", "1">>, <<"rnd", "2">>)))
  IN  { req(<<"/foo">>, [x \in {} |-> <<>>]),
        req(<<"/cb", "?">> \o Query(<<"rnd", "1">>),
            ("cookie" :> CookieHeader(config, None, None, state_cookie))) }

\* The paths of the second request.
FollowUpPaths ==
  {<<"/foo">>} \cup { <<"/cb", "?">> \o Query(s) : s \in Randoms }

\* The Set-Cookie value tells the user-agent to drop the cookie.
Expires(value) ==
  \E i \in 2..Len(SetCookiePieces(value)) :
     SetCookiePieces(value)[i] = <<"Max-Age", "=", "0">>

\* The name=value pairs the user-agent keeps from a response.
CookiesKept(resp) ==
  LET kept == SelectSeq(resp.headers,
                        LAMBDA hd : hd.key = "set-cookie" /\ ~Expires(hd.value))
  IN  [i \in 1..Len(kept) |-> SetCookiePieces(kept[i].value)[1]]

InitRound ==
  /\ idp_config_ \in RoundConfigs
  /\ order \in BOOLEAN
  /\ \E r \in RoundRequests(idp_config_) :
        request = [c \in Calls |-> IF c = 1 THEN r ELSE NoRequest]
  /\ response = [c \in Calls |-> EmptyResponse]
  /\ pc = [c \in Calls |-> IF c = 1 THEN "Process" ELSE "off"]
  /\ code = [c \in Calls |-> ""]
  /\ local = [c \in Calls |-> NoLocal]
  /\ posts = [c \in Calls |-> <<>>]
  /\ decrypts = [c \in Calls |-> <<>>]
  /\ parses = [c \in Calls |-> <<>>]
  /\ log = [c \in Calls |-> <<>>]

\* The user-agent, having kept the cookies of the first response, sends the
\* second request with them.
Browser ==
  /\ pc[1] = "done"
  /\ pc[2] = "off"
  /\ response[1].kind = "denied"
  /\ Len(CookiesKept(response[1])) > 0
  /\ \E path \in FollowUpPaths :
        request' = [request EXCEPT
                      ![2] = [has_http |-> TRUE, scheme |-> "https",
                              host |-> "app", path |-> path,
                              headers |-> ("cookie" :>
                                  StrJoin(CookiesKept(response[1]), "; "))]]
  /\ pc' = [pc EXCEPT ![2] = "Process"]
  /\ UNCHANGED <<idp_config_, order, response, code, local, posts, decrypts,
                 parses, log>>

NextRound == Next \/ Browser

SpecRound == InitRound /\ [][NextRound]_vars

\* The state cookie invocation c was sent, as the user-agent holds it.
C19_StateCookieOf(c) ==
  CookieFromHeaders(request[c].headers, GetStateCookieName(idp_config_))

\* Invocation a was redirected to the IdP with state s and nonce n and
\* issued the state cookie encrypting encode(s, n).
C19_Issued(a) ==
  /\ Done(a)
  /\ local[a].generated
  /\ HasHeaderValue(a, "set-cookie",
        EncodeSetCookie(GetStateCookieName(idp_config_),
                        Encrypt(CodecEncode(local[a].state, local[a].nonce)),
                        CookieDirectives(<<"Max-Age", "=", "6", "0">>)))
  /\ \E location \in C16_Locations(a) :
        /\ Occurs(<<"nonce", "=">> \o local[a].nonce \o <<"&">>, location)
        /\ Occurs(<<"&", "state", "=">> \o local[a].state, location)

\* Invocation b is a later callback that carries the cookie a issued, with
\* query state s, and got a 200 token response.
C19_Case(a, b) ==
  /\ C19_Issued(a)
  /\ Done(b)
  /\ C20_ReachesStep4(b) /\ C20_Matches(b)
  /\ C19_StateCookieOf(b)
       = Some(Encrypt(CodecEncode(local[a].state, local[a].nonce)))
  /\ QueryParam(b, "state") = Some(local[a].state)
  /\ QueryParam(b, "code").has
  /\ posts[b] # <<>>
  /\ ~local[b].http.null
  /\ local[b].http.status = 200

\* C19: if a RedirectToIdP response issued a state cookie encrypting
\* encode(s, n) and put nonce=n, state=s in the authorization request, then a
\* later callback carrying that cookie with query state=s and a 200 token
\* response calls the parser once, with client_id = config.client_id and
\* expected nonce n; when the parser returns none, Process returns
\* INVALID_ARGUMENT and sets no session cookie.
C19_NonceBinding ==
  \A a, b \in Calls :
     C19_Case(a, b) =>
       /\ Len(parses[b]) = 1
       /\ parses[b][1].client_id = idp_config_.client_id
       /\ parses[b][1].nonce = local[a].nonce
       /\ parses[b][1].body = local[b].http.body
       /\ ~Parse(parses[b][1].client_id, parses[b][1].nonce, parses[b][1].body).has
            => /\ code[b] = "INVALID_ARGUMENT"
               /\ ~SetsIdTokenCookie(b)
               /\ ~SetsAccessTokenCookie(b)

\* The round trip was made with state and nonce different, and the token
\* response carried the state where the nonce belongs: the parser was asked
\* for the nonce and returned none.
C19_Witness ==
  \E a, b \in Calls :
     /\ C19_Case(a, b)
     /\ local[a].state # local[a].nonce
     /\ local[b].http.body.wellformed
     /\ local[b].http.body.aud = idp_config_.client_id
     /\ local[b].http.body.nonce = local[a].state
     /\ code[b] = "INVALID_ARGUMENT"

\* The round trip was made and the token was accepted.
C19_WitnessAccepted ==
  \E a, b \in Calls :
     /\ C19_Case(a, b)
     /\ local[a].state # local[a].nonce
     /\ local[b].http.body.nonce = local[a].nonce
     /\ code[b] = "UNAUTHENTICATED"
     /\ SetsIdTokenCookie(b)

----------------------------------------------------------------------------
(* Failures on the callback path *)

\* The token the parser returned to invocation c, if it was called.
C21_Token(c) ==
  IF parses[c] = <<>> THEN None
  ELSE Parse(parses[c][1].client_id, parses[c][1].nonce, parses[c][1].body)

\* The failures of C21, in its order: state cookie absent; state cookie not
\* decrypted; decrypted state cookie not decoded; query unparseable; query
\* without state or without code; token without access token while
\* access_token is configured.
C21_Failure(c, i) ==
  LET cookie == C19_StateCookieOf(c)
      plain == Decrypt(cookie.val)
  IN  CASE i = 1 -> ~cookie.has
        [] i = 2 -> cookie.has /\ ~plain.has
        [] i = 3 -> cookie.has /\ plain.has /\ ~CodecDecode(plain.val).has
        [] i = 4 -> ~QueryOf(c).has
        [] i = 5 -> QueryOf(c).has
                      /\ (~QueryParam(c, "state").has \/ ~QueryParam(c, "code").has)
        [] i = 6 -> /\ idp_config_.has_access_token
                    /\ C21_Token(c).has
                    /\ ~C21_Token(c).val.access_token.has

\* Invocation c finished on the callback path.
C21_OnCallbackPath(c) ==
  Done(c) /\ C20_ReachesStep4(c) /\ C20_Matches(c)

\* INVALID_ARGUMENT, no 302, no Location, no id-token cookie and no
\* access-token cookie.
C21_Rejected(c) ==
  /\ code[c] = "INVALID_ARGUMENT"
  /\ response[c].status # 302
  /\ ~HasHeader(c, "location")
  /\ ~SetsIdTokenCookie(c)
  /\ ~SetsAccessTokenCookie(c)

\* C21: on the callback path, each of these returns INVALID_ARGUMENT with no
\* 302 or Location and no id-token or access-token cookie: state cookie
\* absent; state cookie fails to decrypt; decrypted state cookie fails to
\* decode; query unparseable; query missing state or code; the parser returns
\* a token without access token while access_token is configured.
C21_CallbackFailures ==
  \A c \in Calls :
     C21_OnCallbackPath(c) =>
       \A i \in 1..6 : C21_Failure(c, i) => C21_Rejected(c)

\* The one failure of invocation c is failure i.
C21_Only(c, i) ==
  /\ C21_OnCallbackPath(c)
  /\ \A j \in 1..6 : C21_Failure(c, j) <=> (j = i)

\* A callback validated, the token endpoint answered 200 with a token that
\* has no access token, and access_token is configured.
C21_Witness == \E c \in Calls : C21_Only(c, 6) /\ posts[c] # <<>>

\* Each of the other failures happened alone.
C21_WitnessAbsent == \E c \in Calls : C21_Only(c, 1)

C21_WitnessDecrypt == \E c \in Calls : C21_Only(c, 2)

C21_WitnessDecode == \E c \in Calls : C21_Only(c, 3)

C21_WitnessQuery ==
  \E c \in Calls : C21_Only(c, 4) /\ CookieStateOf(c).has

C21_WitnessNoCode ==
  \E c \in Calls :
     /\ C21_Only(c, 5)
     /\ QueryParam(c, "state") = Some(CookieStateOf(c).val[1])

C21_WitnessNoState ==
  \E c \in Calls : C21_Only(c, 5) /\ QueryParam(c, "code").has

----------------------------------------------------------------------------
(* The session round trip *)

\* The values invocation a set for the cookie of that name.
C22_ValuesSet(a, name) ==
  { SubSeq(SetCookiePieces(v)[1], Len(name) + 2, Len(SetCookiePieces(v)[1])) :
      v \in C15_SetCookies(a, name) }

\* Invocation a was a successful callback: it set the id-token cookie and,
\* when access_token is configured, the access-token cookie, from a parsed
\* token response.
C22_Callback(a) ==
  /\ Done(a)
  /\ EnteredRetrieveToken(a)
  /\ C21_Token(a).has
  /\ SetsIdTokenCookie(a)
  /\ idp_config_.has_access_token => SetsAccessTokenCookie(a)

\* Invocation b presents exactly the cookie values a set, and no bypass
\* header.
C22_Presents(a, b) ==
  LET cookies == DecodeCookies(request[b].headers["cookie"])
      id_name == GetIdTokenCookieName(idp_config_)
      access_name == GetAccessTokenCookieName(idp_config_)
  IN  /\ request[b].has_http
      /\ DOMAIN request[b].headers = {"cookie"}
      /\ cookies.has
      /\ { <<cookies.val[i][1], cookies.val[i][2]>> : i \in 1..Len(cookies.val) }
           = { <<id_name, v>> : v \in C22_ValuesSet(a, id_name) }
               \cup { <<access_name, v>> : v \in C22_ValuesSet(a, access_name) }

\* The value of a forwarded header: preamble, one space and the token, or
\* the token alone when the preamble is empty.
C22_Forwarded(preamble, token) ==
  IF preamble = <<>> THEN token ELSE preamble \o <<" ">> \o token

\* The case of C22.
C22_Case(a, b) ==
  /\ a # b
  /\ C22_Callback(a)
  /\ Done(b)
  /\ C22_Presents(a, b)

\* C22: after a successful callback that set the id-token cookie (and the
\* access-token cookie when access_token is configured) from a parsed token
\* response, a later request that presents exactly those cookie values and
\* no bypass header returns OK, with the id_token header set to the preamble,
\* a space and the JWT the parser returned (the JWT alone when the preamble is
\* empty), and likewise the access_token header; that request gets no
\* Set-Cookie and no Location and makes no call of the token endpoint.
C22_SessionRoundTrip ==
  \A a, b \in Calls :
     C22_Case(a, b) =>
       /\ code[b] = "OK"
       /\ response[b].kind = "ok"
       /\ HasHeaderValue(b, idp_config_.id_token.header,
             C22_Forwarded(idp_config_.id_token.preamble, C21_Token(a).val.jwt))
       /\ idp_config_.has_access_token =>
            HasHeaderValue(b, idp_config_.access_token.header,
               C22_Forwarded(idp_config_.access_token.preamble,
                             C21_Token(a).val.access_token.val))
       /\ Len(Headers(b)) = IF idp_config_.has_access_token THEN 2 ELSE 1
       /\ ~HasHeader(b, "set-cookie")
       /\ ~HasHeader(b, "location")
       /\ posts[b] = <<>>

\* The round trip was made with both cookies and a preamble, the second
\* request going to the callback path.
C22_Witness ==
  \E a, b \in Calls :
     /\ C22_Case(a, b)
     /\ idp_config_.has_access_token
     /\ idp_config_.id_token.preamble # <<>>
     /\ C20_Matches(b)

\* The round trip was made with the id-token cookie alone and no preamble.
C22_WitnessNoPreamble ==
  \E a, b \in Calls :
     /\ C22_Case(a, b)
     /\ ~idp_config_.has_access_token
     /\ idp_config_.id_token.preamble = <<>>
     /\ C21_Token(a).val.jwt # Jwt
     /\ HasHeaderValue(b, idp_config_.id_token.header, C21_Token(a).val.jwt)

====
